---- MODULE Spec2Model ----
(***************************************************************************)
(* Model of the staged analysis pipeline of eshita01/Finance:              *)
(*   run_agent.py         the stage graph fetch -> ... -> decide           *)
(*   analysis/*.py        the per-domain analysers                         *)
(*   data_sources/*.py    the fetchers (collaborators, by their outcomes)  *)
(*   decision/*.py        the decision collaborator                        *)
(* Numbers with a fractional part are kept in tenths (0.2 is 2).           *)
(***************************************************************************)
EXTENDS Integers, Sequences, FiniteSets, TLC

VARIABLES
    entry,     \* how the run was started: "cli" (python run_agent.py) or "graph" (graph.invoke)
    pc,        \* position of the run: a stage name, a step of SECRiskAnalyzer.analyze, or an end
    state,     \* the AgentState mapping of the run (key -> value)
    invoked,   \* the stages invoked so far in this run, in order
    err,       \* the stage that raised and the exception kind
    runNo,     \* number of the current run (runs follow each other on the same disk)
    ticker,    \* args.ticker of the run
    reports,   \* data/sec_reports/*.pdf : file name -> text the PDF extracts to
    edgar,     \* data/sec_reports/sec-edgar-filings/<TICKER>/<form> : downloaded filing folders
    cache,     \* cache/sec_analysis/*.json : file name -> file content
    download,  \* what the filing download did in this run's sec_fetch
    sa,        \* local variables of the SECRiskAnalyzer.analyze call in progress
    log,       \* the steps SECRiskAnalyzer.analyze calls took, in order, this run
    calls,     \* one record per SECRiskAnalyzer.analyze call that ended, over all runs
    bundle,    \* the argument of the last decider.decide call of this run
    disabled,  \* the stages the graph of this run was built without
    fn,        \* the function applied on its own: its name, or "none"
    arg,       \* the input the function is applied to
    res,       \* what the function returned, once it has been applied
    procs      \* the concurrent SECRiskAnalyzer.analyze calls: process -> its locals

vars == <<entry, pc, state, invoked, err, runNo, ticker, reports, edgar, cache,
          download, sa, log, calls, bundle, disabled, fn, arg, res, procs>>

\* what a pipeline run leaves alone
aside == <<disabled, fn, arg, res, procs>>

----------------------------------------------------------------------------
(* Bounds of the model *)

\* number of pipeline runs that follow each other on one disk
MaxRuns == 2

\* longest list of insider transactions an analysis is applied to
MaxTxns == 3

\* most rows of a peer's price history
MaxPeerRows == 15

\* longest news feed the sentiment analysis is applied to
MaxFeed == 3

\* longest filing text (in tokens) the section parser is applied to
MaxTokens == 4

----------------------------------------------------------------------------
(* Values shared by the analysers *)

\* a float that is NaN (an indicator whose warm-up window is not satisfied)
NaN == -99999
\* Python's None, where a sequence of words is expected
None == <<"None">>
\* the empty mapping {} a stage has not written / a missing dict
NoErr == [stage |-> "none", kind |-> "none"]

\* IEEE comparison: any comparison with NaN is False
Gt(a, b) == a # NaN /\ b # NaN /\ a > b
Lt(a, b) == a # NaN /\ b # NaN /\ a < b

\* dict merge {**a, **b}: b's keys win
Merge(a, b) == b @@ a

\* dict.get(key, default) on a mapping
Get(d, k, default) == IF k \in DOMAIN d THEN d[k] ELSE default

\* the sequences over S of length at most n
SeqsUpTo(S, n) == UNION {[1..k -> S] : k \in 0..n}

RECURSIVE SumSeq(_)
SumSeq(s) == IF s = <<>> THEN 0 ELSE Head(s) + SumSeq(Tail(s))

----------------------------------------------------------------------------
(* analysis/technical_analysis.py *)

\* StockDataFetcher(lookback_days=30): at most this many daily rows
LookbackDays == 30
\* ta windows used by compute_indicators
SMAWindow == 20
RSIWindow == 14
MACDSlow == 26
MACDSignalWindow == 9
BBWindow == 20

\* A price frame: its row count, whether it has a Close / Adj Close column,
\* and the values the indicator library derives for its last row once the
\* window of each indicator is satisfied.
\* prev and prev7 are the prices one row and seven rows before the last.
Frame(n, hasPrice, price, prev, prev7, rsi, macd, sig, bbl, bbh) ==
    [rows |-> n, hasPrice |-> hasPrice, price |-> price, prev |-> prev,
     prev7 |-> prev7, rsi |-> rsi, macd |-> macd, sig |-> sig, bbl |-> bbl,
     bbh |-> bbh]

\* compute_indicators: raises ValueError on an empty frame or a frame without
\* price column; otherwise appends the indicator columns, undefined (NaN) in
\* the rows before each window is satisfied.
ComputeRaises(df) == df.rows = 0 \/ ~df.hasPrice

compute_indicators(df) ==
    [rows |-> df.rows,
     hasPrice |-> df.hasPrice,
     price |-> df.price,
     SMA_20 |-> IF df.rows >= SMAWindow THEN df.price ELSE NaN,
     RSI_14 |-> IF df.rows >= RSIWindow THEN df.rsi ELSE NaN,
     MACD_12_26_9 |-> IF df.rows >= MACDSlow THEN df.macd ELSE NaN,
     MACD_signal |-> IF df.rows >= MACDSlow + MACDSignalWindow - 1 THEN df.sig ELSE NaN,
     BBL_20 |-> IF df.rows >= BBWindow THEN df.bbl ELSE NaN,
     BBH_20 |-> IF df.rows >= BBWindow THEN df.bbh ELSE NaN]

\* the last row of the indicator frame holds an undefined value
LastRowUndefined(ind) ==
    NaN \in {ind.RSI_14, ind.MACD_12_26_9, ind.MACD_signal, ind.BBL_20, ind.BBH_20}

\* analyze(df) of technical_analysis: the signals of the last row
ClassifyRsi(latest) ==
    IF Gt(latest.RSI_14, 70) THEN "overbought"
    ELSE IF Lt(latest.RSI_14, 30) THEN "oversold"
    ELSE "neutral"

\* mutant: equal MACD line and signal are bullish
ClassifyMacd_TiesBullish(latest) ==
    IF ~Lt(latest.MACD_12_26_9, latest.MACD_signal) THEN "bullish" ELSE "bearish"

ClassifyMacd(latest) ==
    IF Gt(latest.MACD_12_26_9, latest.MACD_signal) THEN "bullish" ELSE "bearish"

ClassifyBb(latest) ==
    IF Gt(latest.price, latest.BBH_20) THEN "breakout"
    ELSE IF Lt(latest.price, latest.BBL_20) THEN "breakdown"
    ELSE "neutral"

Classify(ind) ==
    [rsi |-> ClassifyRsi(ind), macd |-> ClassifyMacd(ind), bb |-> ClassifyBb(ind)]

----------------------------------------------------------------------------
(* analysis/sentiment_analysis.py *)

\* A news item: kind "num" carries a parseable score (tenths), "bad" an
\* unparseable one, "none" no overall_sentiment_score key.
Item(kind, score, title) == [kind |-> kind, score |-> score, title |-> title]

\* mutant: an unparseable score counts as 0.0
ItemScores_BadAsZero(feed) ==
    LET scored == SelectSeq(feed, LAMBDA it : it.kind # "none")
    IN  [i \in 1..Len(scored) |-> IF scored[i].kind = "num" THEN scored[i].score ELSE 0]

ItemScores(feed) ==
    LET scored == SelectSeq(feed, LAMBDA it : it.kind = "num")
    IN  [i \in 1..Len(scored) |-> scored[i].score]

Tone(sum, n) ==
    IF n > 0 /\ sum > 2 * n THEN "positive"
    ELSE IF n > 0 /\ sum < -2 * n THEN "negative"
    ELSE "neutral"

Trend(scores) ==
    IF Len(scores) >= 2 /\ scores[Len(scores)] > scores[1] THEN "up"
    ELSE IF Len(scores) >= 2 /\ scores[Len(scores)] < scores[1] THEN "down"
    ELSE "flat"

\* the length above which urgency is high
UrgencyLen == 30

\* mutant: the empty-feed check is missing
SentimentRaises_Never(feed) == FALSE

\* analyze(feed) raises ValueError("Empty news feed") on an empty feed
SentimentRaises(feed) == feed = <<>>

\* the titles collected: an item whose score does not parse is left by
\* continue, before its title is appended
Headlines(feed) ==
    LET kept == SelectSeq(feed, LAMBDA it : it.kind # "bad")
    IN  [i \in 1..Len(kept) |-> kept[i].title]

analyze_sentiment(feed) ==
    LET scores == ItemScores(feed)
        headlines == Headlines(feed)
    IN  [average_sentiment |-> <<SumSeq(scores), Len(scores)>>,
         tone |-> Tone(SumSeq(scores), Len(scores)),
         headline_summary |-> SubSeq(headlines, 1, IF Len(headlines) < 3 THEN Len(headlines) ELSE 3),
         urgency |-> IF Len(feed) > UrgencyLen THEN "high" ELSE "normal",
         hype |-> Len(feed),
         trend |-> Trend(scores)]

----------------------------------------------------------------------------
(* analysis/insider_analysis.py *)

\* An insider transaction: the transaction type as fetched, the title of the
\* insider as fetched, and the transaction date.  A date is of kind "day" (a
\* format parses it to that day number), "bad" (not empty, no format parses
\* it) or "none" (missing or empty).
Date(kind, day) == [kind |-> kind, day |-> day]
Txn(type, title, date) == [type |-> type, title |-> title, date |-> date]

\* days of the trailing window of the recent-cluster flag
ClusterDays == 7

\* str.lower() of a transaction type
LowerType(v) ==
    CASE v \in {"buy", "Buy", "BUY"} -> "buy"
      [] v \in {"sell", "Sell", "SELL"} -> "sell"
      [] v = "Gift" -> "gift"
      [] OTHER -> v

Buys(txns) == SelectSeq(txns, LAMBDA t : LowerType(t.type) = "buy")
Sells(txns) == SelectSeq(txns, LAMBDA t : LowerType(t.type) = "sell")

NetActivity(txns) ==
    IF Len(Buys(txns)) > Len(Sells(txns)) THEN "Buy"
    ELSE IF Len(Sells(txns)) > Len(Buys(txns)) THEN "Sell"
    ELSE "Neutral"

TOP_EXEC_ROLES == {"CEO", "CFO", "CTO"}

\* role in title.upper(): the roles whose letters occur in the upper-cased
\* title (DIRECTOR holds the letters CTO)
RoleIn(role, title) ==
    CASE title \in {"CEO", "ceo", "Chief Executive Officer (CEO)"} -> role = "CEO"
      [] title \in {"CFO", "cfo"} -> role = "CFO"
      [] title \in {"CTO", "Director"} -> role = "CTO"
      [] OTHER -> FALSE

TopExecs(txns) ==
    {role \in TOP_EXEC_ROLES : \E i \in 1..Len(txns) : RoleIn(role, txns[i].title)}

\* _parse_date: the day of a date one of the formats parses, else utcnow()
parse_date(value, now) == IF value.kind = "day" THEN value.day ELSE now

\* the buys that carry a date, parsed, and of them those at most ClusterDays
\* days before now (the clock of the machine at the time of the analysis)
RecentCluster(txns, now) ==
    LET dated == SelectSeq(Buys(txns), LAMBDA t : t.date.kind # "none")
        recent == SelectSeq(dated, LAMBDA t : now - parse_date(t.date, now) <= ClusterDays)
    IN  Len(recent) >= 2

\* float(x) of a fetched value, 0.0 when it raises
Fetched(ok, v) == [ok |-> ok, v |-> v]
FloatOrZero(x) == IF x.ok THEN x.v ELSE 0

\* the insider sentiment blob: of kind "mspr" (a scalar under that key), "data"
\* (a series under that key, whose last element counts) or "none"
Sentiment(kind, mspr, data) == [kind |-> kind, mspr |-> mspr, data |-> data]

MsprOf(sentiment) ==
    IF sentiment.kind = "mspr" THEN FloatOrZero(sentiment.mspr)
    ELSE IF sentiment.kind = "data" /\ sentiment.data # <<>>
    THEN FloatOrZero(sentiment.data[Len(sentiment.data)])
    ELSE 0

\* mutant: the first branch of the lookup takes mspr >= 0.6
InsiderScore_AtLeast(net, mspr, execs) ==
    IF net = "Buy" /\ mspr >= 6 /\ execs # {} THEN 85
    ELSE IF net = "Buy" /\ mspr > 6 THEN 75
    ELSE IF net = "Buy" /\ mspr > 3 THEN 65
    ELSE IF net = "Sell" /\ mspr <= 3 THEN 25
    ELSE 50

\* the lookup of the score; mspr in tenths
InsiderScore(net, mspr, execs) ==
    IF net = "Buy" /\ mspr > 6 /\ execs # {} THEN 85
    ELSE IF net = "Buy" /\ mspr > 6 THEN 75
    ELSE IF net = "Buy" /\ mspr > 3 THEN 65
    ELSE IF net = "Sell" /\ mspr <= 3 THEN 25
    ELSE 50

MsprView(mspr) == IF mspr > 6 THEN "Bullish" ELSE IF mspr > 3 THEN "Neutral" ELSE "Bearish"

analyze_insider(data, now) ==
    LET txns == data.insider_transactions
        net == NetActivity(txns)
        execs == TopExecs(txns)
        mspr == MsprOf(data.insider_sentiment)
    IN  [ticker |-> data.ticker,
         insider_sentiment_score |-> InsiderScore(net, mspr, execs),
         summary |-> <<execs, net, Len(Buys(txns)), Len(Sells(txns)), mspr,
                       MsprView(mspr), RecentCluster(txns, now)>>,
         raw_features |-> [total_buys |-> Len(Buys(txns)),
                           total_sells |-> Len(Sells(txns)),
                           net_activity |-> net,
                           top_execs_involved |-> execs,
                           mspr |-> mspr,
                           recent_cluster |-> RecentCluster(txns, now)]]

----------------------------------------------------------------------------
(* analysis/peer_analysis.py *)

\* PeerDataFetcher(limit=3): at most this many peers
PeerLimit == 3
\* rows needed for the 1-day and the 7-day change
Rows1d == 2
Rows7d == 8

\* a numeric field of a peer row: None, or the fraction num/den
NoneNum == [isNone |-> TRUE, num |-> 0, den |-> 1]
Num(n, d) == [isNone |-> FALSE, num |-> n, den |-> d]

\* (last - prev) / prev * 100
PctChange(last, prev) == Num((last - prev) * 100, prev)

\* Processing one peer raises: df[price_col] on a frame without price column
\* (KeyError), compute_indicators on it (ValueError), or the division by a
\* previous price of 0.0 (ZeroDivisionError). Nothing catches it inside the
\* loop.
PeerRaises(df) ==
    /\ df.rows > 0
    /\ \/ ~df.hasPrice
       \/ df.rows >= Rows1d /\ df.prev = 0
       \/ df.rows >= Rows7d /\ df.prev7 = 0

PeerRow(df, sentiment) ==
    [sentiment |-> Get(sentiment, "companyNewsScore", 0),
     change_1d |-> IF df.rows >= Rows1d THEN PctChange(df.price, df.prev) ELSE NoneNum,
     change_7d |-> IF df.rows >= Rows7d THEN PctChange(df.price, df.prev7) ELSE NoneNum,
     rsi |-> IF df.rows > 0 THEN Num(compute_indicators(df).RSI_14, 1) ELSE NoneNum]

\* analyze(data) of peer_analysis raises as soon as one peer raises
PeerAnalysisRaises(data) ==
    \E i \in 1..Len(data.peers) : PeerRaises(data.price_data[data.peers[i]])

analyze_peers(data) ==
    [peer_table |->
        [p \in {data.peers[i] : i \in 1..Len(data.peers)} |->
            PeerRow(data.price_data[p], data.news[p])]]

----------------------------------------------------------------------------
(* analysis/sec_risk_analysis.py *)

\* A filing text is a sequence of tokens: the headings the patterns of
\* _parse_sections look for, and other words.
\*   "i1a_rf"  Item 1A. Risk Factors       "i1b"  Item 1B
\*   "i7_mda"  Item 7. Management's Discussion   "i7a"  Item 7A   "i8"  Item 8
\*   "i2_mda"  Item 2. Management's Discussion   "i2"   Item 2    "i3"  Item 3
PatRiskStart == {"i1a_rf"}
Pat1B == {"i1b"}
Pat7Mda == {"i7_mda"}
Pat7Aor8 == {"i7a", "i8"}
Pat2 == {"i2", "i2_mda"}
Pat2Mda == {"i2_mda"}
Pat3 == {"i3"}

\* re.search: position of the first token matching the pattern after position
\* `from`, 0 when there is none
Search(src, pat, from) ==
    LET hits == {i \in (from + 1)..Len(src) : src[i] \in pat}
    IN  IF hits = {} THEN 0 ELSE CHOOSE i \in hits : \A j \in hits : i <= j

find_section(src, startPat, endPat) ==
    LET start == Search(src, startPat, 0)
        end == Search(src, endPat, start)
    IN  IF start = 0 THEN <<>>
        ELSE IF end # 0 THEN SubSeq(src, start + 1, end - 1)
        ELSE SubSeq(src, start + 1, Len(src))

parse_sections(text, form) ==
    IF form = "10-K"
    THEN [risk |-> find_section(text, PatRiskStart, Pat1B),
          mdna |-> find_section(text, Pat7Mda, Pat7Aor8)]
    ELSE IF form = "10-Q"
    THEN [risk |-> find_section(text, PatRiskStart, Pat2),
          mdna |-> find_section(text, Pat2Mda, Pat3)]
    ELSE [risk |-> <<>>, mdna |-> <<>>]

\* str.lower() on the words a summary is made of
LowerWord(w) ==
    IF w = "Positive" THEN "positive" ELSE IF w = "NEGATIVE" THEN "negative" ELSE w

\* "word" in summary.lower()
ContainsLower(summary, word) == \E i \in 1..Len(summary) : LowerWord(summary[i]) = word

\* summarize_text_with_llm: the stripped reply, "" when the call raises
Summarize(reply) == IF reply.ok THEN reply.text ELSE <<>>

\* the keyword heuristic of the except branch, starting from `sentiment`
KeywordSentiment(summary, sentiment) ==
    IF ContainsLower(summary, "positive") THEN "Positive"
    ELSE IF ContainsLower(summary, "negative") THEN "Negative"
    ELSE sentiment

\* _analyze_section with the replies of the two LLM calls. A classification
\* reply is kind "json" (parsed to a mapping; scoreOk says float(score) works),
\* "text" (not parseable) or "fail" (the call raised).
analyze_section(section, sumReply, clsReply) ==
    IF section = <<>>
    THEN [summary |-> <<>>, sentiment |-> "Neutral", score |-> 0]
    ELSE LET summary == Summarize(sumReply)
         IN  IF clsReply.kind = "json" /\ clsReply.scoreOk
             THEN [summary |-> summary, sentiment |-> clsReply.sentiment,
                   score |-> clsReply.score]
             ELSE IF clsReply.kind = "json"
             THEN [summary |-> summary,
                   sentiment |-> KeywordSentiment(summary, clsReply.sentiment),
                   score |-> 0]
             ELSE [summary |-> summary,
                   sentiment |-> KeywordSentiment(summary, "Neutral"),
                   score |-> 0]

\* the results mapping analyze builds from the two section analyses
Results(meta, risk, mdna) ==
    [ticker |-> meta.ticker,
     form_type |-> meta.form,
     report_date |-> meta.filing_date,
     risk_summary |-> risk.summary,
     mdna_summary |-> mdna.summary,
     risk_sentiment |-> risk.sentiment,
     mdna_sentiment |-> mdna.sentiment]

\* mutant: the summaries are clipped when written (as the stage's print clips)
JsonDumps_Clipped(results) ==
    [i \in 1..7 |->
        LET k == <<"ticker", "form_type", "report_date", "risk_summary", "mdna_summary",
                   "risk_sentiment", "mdna_sentiment">>[i]
        IN  <<k, IF k \in {"risk_summary", "mdna_summary"}
                 THEN SubSeq(results[k], 1, IF results[k] = <<>> THEN 0 ELSE 1)
                 ELSE results[k]>>]

\* json.dumps(results): the members in insertion order
ResultKeys ==
    <<"ticker", "form_type", "report_date", "risk_summary", "mdna_summary",
      "risk_sentiment", "mdna_sentiment">>

JsonDumps(results) == [i \in 1..Len(ResultKeys) |-> <<ResultKeys[i], results[ResultKeys[i]]>>]

\* json.loads raises on a text that is not a complete document
JsonLoadsRaises(content) == Len(content) < Len(ResultKeys)

JsonLoads(content) ==
    [k \in {content[i][1] : i \in 1..Len(content)} |->
        content[CHOOSE i \in 1..Len(content) : content[i][1] = k][2]]

\* mutant: the cache file is never found
CacheHit_Never(meta) == FALSE

\* json_file.exists()
CacheHit(meta) == <<meta.ticker, meta.form, meta.filing_date>> \in DOMAIN cache

\* the cache file of a filing: cache/sec_analysis/<ticker>_<form>_<filing_date>.json
JsonFile(meta) == <<meta.ticker, meta.form, meta.filing_date>>

\* the PDF of a filing: data/sec_reports/<ticker>_<form>_<filing_date>.pdf
PdfName(t, form, date) == <<t, form, date>>

----------------------------------------------------------------------------
(* data_sources/sec_fetcher.py *)

\* str.upper() on the ticker symbols
Upper(t) == IF t = "aapl" THEN "AAPL" ELSE t

\* order of the form names as strings: "10-K" < "10-Q"
FormOrd(form) == IF form = "10-K" THEN 1 ELSE 2

\* _existing_file: the last name in sorted order among <TICKER>_*_*.pdf
ExistingFiles(t) == {f \in DOMAIN reports : f[1] = t}

NameLeq(f, g) == FormOrd(f[2]) < FormOrd(g[2]) \/ (f[2] = g[2] /\ f[3] <= g[3])

existing_file(t) == CHOOSE f \in ExistingFiles(t) : \A g \in ExistingFiles(t) : NameLeq(g, f)

\* _latest_local_filing on the folders of a ticker: dates k and q of the
\* newest 10-K and 10-Q folder, 0 for none; the 10-Q wins only when its date
\* is strictly greater.
\* mutant: the check for a missing local filing is dropped
HasLocal_Always(folders) == TRUE

HasLocal(folders) == folders.k # 0 \/ folders.q # 0

latest_local_filing(folders) ==
    IF folders.k # 0 /\ ~(folders.q > folders.k)
    THEN [form |-> "10-K", filing_date |-> folders.k]
    ELSE [form |-> "10-Q", filing_date |-> folders.q]

Meta(t, form, date) ==
    [ticker |-> t, form |-> form, filing_date |-> date, filename |-> PdfName(t, form, date)]

----------------------------------------------------------------------------
(* run_agent.py *)

\* the names run_agent.py imports from config, and the names config.py defines
ImportedFromConfig == {"get_api_key", "get_alpha_vantage_key", "get_finnhub_key"}
ConfigDefines == {"get_api_key", "get_alpha_vantage_key"}

\* mutant: analyze is wired to sec_analyze, skipping sec_fetch
Edge_SkipsSecFetch(stage) ==
    CASE stage = "fetch" -> "analyze"
      [] stage = "analyze" -> "sec_analyze"
      [] stage = "sec_fetch" -> "sec_analyze"
      [] stage = "sec_analyze" -> "peer_fetch"
      [] stage = "peer_fetch" -> "peer_analyze"
      [] stage = "peer_analyze" -> "decide"
      [] stage = "decide" -> "END"

\* graph.add_edge: the successor of each stage; decide leads to END
Edge(stage) ==
    CASE stage = "fetch" -> "analyze"
      [] stage = "analyze" -> "sec_fetch"
      [] stage = "sec_fetch" -> "sec_analyze"
      [] stage = "sec_analyze" -> "peer_fetch"
      [] stage = "peer_fetch" -> "peer_analyze"
      [] stage = "peer_analyze" -> "decide"
      [] stage = "decide" -> "END"

\* graph.set_entry_point
EntryPoint == "fetch"

\* the peer stage, which a partial pipeline is built without
PeerStages == {"peer_fetch", "peer_analyze"}

\* the edge out of a stage in a graph built without the stages in off: the
\* edges of build_graph, passing over the stages that were not added
RECURSIVE Follow(_, _)
Follow(stage, off) ==
    LET next == Edge(stage) IN IF next \in off THEN Follow(next, off) ELSE next

\* the keys a stage reads with state[...] (a missing one is a KeyError)
Reads(stage) ==
    CASE stage = "analyze" -> {"data", "news", "insider"}
      [] stage = "sec_analyze" -> {"sec_meta"}
      [] stage = "peer_analyze" -> {"peer_data"}
      [] OTHER -> {}

\* the keys of the state that only the peer stage writes, and the key of the
\* bundle that comes from them
PeerStateKeys == {"peer_data", "peer_insights"}
PeerBundleKeys == {"peer_table"}

\* the bundle decision_node builds for the decider
FilingSummary(st, section) ==
    Get(Get(Get(st, "sec_analysis", <<>>), section, <<>>), "summary", None)

\* mutant: decision_node reads the peer insights with a default peer table
Combined_DefaultPeerTable(st) ==
    Merge(Merge(Merge(Merge(Get(st, "signals", <<>>),
                            Get(st, "sentiment", <<>>)),
                      Get(st, "insider_insights", <<>>)),
                Get(st, "peer_insights", [peer_table |-> <<>>])),
          [risk_summary |-> FilingSummary(st, "risk_factors"),
           mdna_summary |-> FilingSummary(st, "mdna")])

Combined(st) ==
    Merge(Merge(Merge(Merge(Get(st, "signals", <<>>),
                            Get(st, "sentiment", <<>>)),
                      Get(st, "insider_insights", <<>>)),
                Get(st, "peer_insights", <<>>)),
          [risk_summary |-> FilingSummary(st, "risk_factors"),
           mdna_summary |-> FilingSummary(st, "mdna")])

----------------------------------------------------------------------------
(* What the collaborators can return *)

Tickers == {"aapl", "AAPL"}

\* price frames of the ticker: empty, without price column, 21 rows, 30 rows
EmptyFrame == Frame(0, FALSE, 0, 0, 0, 0, 0, 0, 0, 0)
NoPriceFrame == Frame(21, FALSE, 0, 0, 0, 0, 0, 0, 0, 0)
PriceFrames ==
    {EmptyFrame, NoPriceFrame,
     Frame(21, TRUE, 100, 99, 95, 75, 5, 2, 80, 90),
     Frame(LookbackDays, TRUE, 100, 99, 95, 25, 5, 2, 90, 110)}

NewsFeeds ==
    {<<>>,
     <<Item("num", 1, "t1"), Item("bad", 0, "t2"), Item("num", 4, "t3")>>}

InsiderBlobs(t) ==
    {[ticker |-> t,
      insider_transactions |->
          <<Txn("buy", "CEO", Date("day", 19)), Txn("buy", "", Date("day", 17)),
            Txn("sell", "", Date("day", 0))>>,
      insider_sentiment |-> Sentiment("mspr", Fetched(TRUE, 7), <<>>)]}

\* the days (as day numbers) on which the analysis of a run can take place
Clock == {20, 40}

\* the filing dates a download can bring
Dates == {1, 2}

\* texts a filing PDF extracts to
DocFull == <<"i1a_rf", "w1", "i1b", "i2_mda", "w2", "i3", "i7_mda", "w3", "i8">>
DocNoAnchors == <<"w1", "w2">>
Docs == {DocFull, DocNoAnchors}

\* a PDF: readable with a text, or one pdfplumber cannot open
Pdf(ok, text) == [ok |-> ok, text |-> text]
Pdfs == {Pdf(TRUE, d) : d \in Docs} \cup {Pdf(FALSE, <<>>)}

\* replies of the summarization call and of the classification call
SumReplies ==
    {[ok |-> FALSE, text |-> <<>>], [ok |-> TRUE, text |-> <<"Positive", "outlook">>]}
ClsReplies ==
    {[kind |-> "json", scoreOk |-> TRUE, sentiment |-> "Negative", score |-> -5],
     [kind |-> "text", scoreOk |-> FALSE, sentiment |-> "Neutral", score |-> 0]}

\* what peer_fetcher.fetch can return: the peers, a frame and a news
\* sentiment mapping for each
ShortFrame == Frame(5, TRUE, 50, 40, 0, 60, 0, 0, 0, 0)
NineFrame == Frame(9, TRUE, 50, 40, 25, 60, 0, 0, 0, 0)
PeerNoPrice == Frame(5, FALSE, 0, 0, 0, 0, 0, 0, 0, 0)
NewsScore(x) == [companyNewsScore |-> x]
PeerData(peers, frames, news) == [peers |-> peers, price_data |-> frames, news |-> news]
PeerBlobsFetched ==
    {PeerData(<<>>, <<>>, <<>>),
     PeerData(<<"P1", "P2">>, [P1 |-> ShortFrame, P2 |-> EmptyFrame],
              [P1 |-> NewsScore(3), P2 |-> <<>>]),
     PeerData(<<"P1", "P2">>, [P1 |-> PeerNoPrice, P2 |-> NineFrame],
              [P1 |-> <<>>, P2 |-> NewsScore(-2)])}
\* company_peers(...)[: self.limit]
PeerBlobs == {b \in PeerBlobsFetched : Len(b.peers) <= PeerLimit}

DecisionTexts == {"Buy: momentum", "Hold: mixed"}

----------------------------------------------------------------------------
(* The run *)

Stages == {"fetch", "analyze", "sec_fetch", "sec_analyze", "peer_fetch", "peer_analyze", "decide"}
Ended == {"END", "error", "killed", "import_error"}

NoFolders == [k |-> 0, q |-> 0]
NoDownload == [k |-> "skip", q |-> "skip"]
NoCall == [text |-> <<>>, risk_text |-> <<>>, mdna_text |-> <<>>,
           risk |-> analyze_section(<<>>, 0, 0), mdna |-> analyze_section(<<>>, 0, 0)]

\* mutant: the error of a stage is recorded and the edge is followed
Raise_Swallowed(stage, kind) ==
    /\ pc' = Edge(stage)
    /\ err' = [stage |-> stage, kind |-> kind]

\* a stage raises: no node catches it, graph.invoke passes the exception on,
\* the graph stops and later stages are not invoked
Raise(stage, kind) ==
    /\ pc' = "error"
    /\ err' = [stage |-> stage, kind |-> kind]

\* a stage returns its delta: it is merged into the state, the edge is followed
Return(stage, delta) ==
    /\ state' = Merge(state, delta)
    /\ pc' = Follow(stage, disabled)
    /\ err' = err

\* an analyze call that ended
Call(meta, outcome, steps, result) ==
    [key |-> JsonFile(meta), outcome |-> outcome, steps |-> steps, result |-> result]

InitRun ==
    /\ entry \in {"cli", "graph"}
    /\ pc = IF entry = "cli" THEN "cli" ELSE EntryPoint
    /\ state = <<>>
    /\ invoked = <<>>
    /\ err = NoErr
    /\ runNo = 1
    /\ ticker \in Tickers
    /\ reports = <<>>
    /\ edgar = NoFolders
    /\ cache = <<>>
    /\ download = NoDownload
    /\ sa = NoCall
    /\ log = <<>>
    /\ calls = <<>>
    /\ bundle = <<>>

\* no function is applied on its own, no concurrent call is in progress
NoFn == fn = "none" /\ arg = <<>> /\ res = <<>>
NoProcs == procs = <<>>

\* a run of the graph as build_graph wires it
Init ==
    /\ InitRun
    /\ disabled = {}
    /\ NoFn
    /\ NoProcs

\* python run_agent.py TICKER: the module's imports run first; a name config.py
\* does not define is an ImportError, before main() is reached
Main ==
    /\ UNCHANGED aside
    /\ pc = "cli"
    /\ pc' = IF ImportedFromConfig \subseteq ConfigDefines THEN EntryPoint ELSE "import_error"
    /\ err' = IF ImportedFromConfig \subseteq ConfigDefines THEN err
              ELSE [stage |-> "import", kind |-> "ImportError"]
    /\ UNCHANGED <<entry, state, invoked, runNo, ticker, reports, edgar, cache,
                   download, sa, log, calls, bundle>>

\* fetch_node: price data, then news, then insider data
FetchNode ==
    /\ UNCHANGED aside
    /\ pc = "fetch"
    /\ invoked' = Append(invoked, "fetch")
    /\ \E data \in PriceFrames, news \in NewsFeeds, insider \in InsiderBlobs(ticker),
          raised \in BOOLEAN :
          IF raised
          THEN Raise("fetch", "FetchError") /\ state' = state
          ELSE Return("fetch", [data |-> data, news |-> news, insider |-> insider])
    /\ UNCHANGED <<entry, runNo, ticker, reports, edgar, cache, download, sa, log,
                   calls, bundle>>

\* analysis_node: indicators, technical signals, news sentiment, insider insight
AnalysisNode ==
    /\ UNCHANGED aside
    /\ pc = "analyze"
    /\ invoked' = Append(invoked, "analyze")
    /\ IF ~(Reads("analyze") \subseteq DOMAIN state)
       THEN Raise("analyze", "KeyError") /\ state' = state
       ELSE IF ComputeRaises(state.data)
       THEN Raise("analyze", "ValueError: price data") /\ state' = state
       ELSE IF SentimentRaises(state.news)
       THEN Raise("analyze", "ValueError: Empty news feed") /\ state' = state
       ELSE \E now \in Clock :
               Return("analyze",
                      [indicators |-> compute_indicators(state.data),
                       signals |-> Classify(compute_indicators(state.data)),
                       sentiment |-> analyze_sentiment(state.news),
                       insider_insights |-> analyze_insider(state.insider, now)])
    /\ UNCHANGED <<entry, runNo, ticker, reports, edgar, cache, download, sa, log,
                   calls, bundle>>

\* sec_fetch_node: SECFetcher.fetch. An existing PDF of the ticker is used as
\* it is. Otherwise both forms are downloaded (a failed download is logged and
\* skipped), the newest local filing is converted to a PDF and moved to
\* data/sec_reports; no local filing, or a failed conversion, raises.
SecFetchNode ==
    /\ UNCHANGED aside
    /\ pc = "sec_fetch"
    /\ invoked' = Append(invoked, "sec_fetch")
    /\ LET t == Upper(ticker) IN
       IF ExistingFiles(t) # {}
       THEN /\ Return("sec_fetch",
                      [sec_meta |-> Meta(t, existing_file(t)[2], existing_file(t)[3])])
            /\ UNCHANGED <<reports, edgar>>
            /\ download' = NoDownload
       ELSE \E dk \in {0} \cup Dates, dq \in {0} \cup Dates, pdf \in Pdfs, converted \in BOOLEAN :
            LET folders == [k |-> IF dk # 0 THEN dk ELSE edgar.k,
                            q |-> IF dq # 0 THEN dq ELSE edgar.q]
                latest == latest_local_filing(folders)
            IN  /\ edgar' = folders
                /\ download' = [k |-> IF dk = 0 THEN "fail" ELSE "ok",
                                q |-> IF dq = 0 THEN "fail" ELSE "ok"]
                /\ IF ~HasLocal(folders)
                   THEN Raise("sec_fetch", "FileNotFoundError") /\ UNCHANGED <<state, reports>>
                   ELSE IF ~converted
                   THEN Raise("sec_fetch", "ConversionError") /\ UNCHANGED <<state, reports>>
                   ELSE /\ reports' = (PdfName(t, latest.form, latest.filing_date) :> pdf) @@ reports
                        /\ Return("sec_fetch",
                                  [sec_meta |-> Meta(t, latest.form, latest.filing_date)])
    /\ UNCHANGED <<entry, runNo, ticker, cache, sa, log, calls, bundle>>

\* sec_analyze_node, first step of SECRiskAnalyzer.analyze: the cache file is
\* looked up; when it exists its content is parsed and returned.
SecAnalyzeNode ==
    /\ UNCHANGED aside
    /\ pc = "sec_analyze"
    /\ invoked' = Append(invoked, "sec_analyze")
    /\ IF ~(Reads("sec_analyze") \subseteq DOMAIN state)
       THEN /\ Raise("sec_analyze", "KeyError")
            /\ UNCHANGED <<state, log, calls>>
       ELSE LET meta == state.sec_meta IN
            IF CacheHit(meta)
            THEN IF JsonLoadsRaises(cache[JsonFile(meta)])
                 THEN /\ Raise("sec_analyze", "JSONDecodeError")
                      /\ log' = <<"lookup", "read_cache">>
                      /\ calls' = Append(calls, Call(meta, "raised", log', <<>>))
                      /\ state' = state
                 ELSE /\ Return("sec_analyze",
                                [sec_analysis |-> JsonLoads(cache[JsonFile(meta)])])
                      /\ log' = <<"lookup", "read_cache">>
                      /\ calls' = Append(calls, Call(meta, "hit", log',
                                                     JsonLoads(cache[JsonFile(meta)])))
            ELSE /\ pc' = "sa_extract"
                 /\ log' = <<"lookup">>
                 /\ UNCHANGED <<state, err, calls>>
    /\ sa' = NoCall
    /\ UNCHANGED <<entry, runNo, ticker, reports, edgar, cache, download, bundle>>

\* analyze, cache miss: the text of the PDF is extracted and cut into sections
SaExtract ==
    /\ UNCHANGED aside
    /\ pc = "sa_extract"
    /\ LET meta == state.sec_meta
           found == meta.filename \in DOMAIN reports /\ reports[meta.filename].ok
       IN  IF ~found
           THEN /\ Raise("sec_analyze", "ExtractionError")
                /\ log' = Append(log, "extract")
                /\ calls' = Append(calls, Call(meta, "raised", log', <<>>))
                /\ sa' = sa
           ELSE LET text == reports[meta.filename].text
                    sections == parse_sections(text, meta.form)
                IN  /\ sa' = [sa EXCEPT !.text = text, !.risk_text = sections.risk,
                                        !.mdna_text = sections.mdna]
                    /\ log' = log \o <<"extract", "parse">>
                    /\ pc' = "sa_risk"
                    /\ UNCHANGED <<err, calls>>
    /\ UNCHANGED <<entry, state, invoked, runNo, ticker, reports, edgar, cache,
                   download, bundle>>

\* the LLM calls _analyze_section makes for a section: none for an empty one
SectionSteps(section) == IF section = <<>> THEN <<>> ELSE <<"summarize", "classify">>

\* analyze, cache miss: the risk section is summarized and classified
SaRisk ==
    /\ UNCHANGED aside
    /\ pc = "sa_risk"
    /\ \E sumReply \in SumReplies, clsReply \in ClsReplies :
          sa' = [sa EXCEPT !.risk = analyze_section(sa.risk_text, sumReply, clsReply)]
    /\ log' = log \o SectionSteps(sa.risk_text)
    /\ pc' = "sa_mdna"
    /\ UNCHANGED <<entry, state, invoked, err, runNo, ticker, reports, edgar, cache,
                   download, calls, bundle>>

\* analyze, cache miss: the MD&A section is summarized and classified
SaMdna ==
    /\ UNCHANGED aside
    /\ pc = "sa_mdna"
    /\ \E sumReply \in SumReplies, clsReply \in ClsReplies :
          sa' = [sa EXCEPT !.mdna = analyze_section(sa.mdna_text, sumReply, clsReply)]
    /\ log' = log \o SectionSteps(sa.mdna_text)
    /\ pc' = "sa_write"
    /\ UNCHANGED <<entry, state, invoked, err, runNo, ticker, reports, edgar, cache,
                   download, calls, bundle>>

\* analyze, cache miss: the results are written to the cache file and returned
SaWrite ==
    /\ UNCHANGED aside
    /\ pc = "sa_write"
    /\ LET meta == state.sec_meta
           results == Results(meta, sa.risk, sa.mdna)
       IN  /\ cache' = (JsonFile(meta) :> JsonDumps(results)) @@ cache
           /\ log' = Append(log, "write")
           /\ calls' = Append(calls, Call(meta, "computed", log', results))
           /\ Return("sec_analyze", [sec_analysis |-> results])
    /\ UNCHANGED <<entry, invoked, runNo, ticker, reports, edgar, download, sa, bundle>>

\* the process is killed while write_text is writing: the file was truncated
\* on opening and holds only the part written so far
SaWriteInterrupted ==
    /\ UNCHANGED aside
    /\ pc = "sa_write"
    /\ LET meta == state.sec_meta
           content == JsonDumps(Results(meta, sa.risk, sa.mdna))
       IN  \E n \in {0, Len(content) - 1} :
              cache' = (JsonFile(meta) :> SubSeq(content, 1, n)) @@ cache
    /\ pc' = "killed"
    /\ log' = Append(log, "write")
    /\ UNCHANGED <<entry, state, invoked, err, runNo, ticker, reports, edgar,
                   download, sa, calls, bundle>>

\* peer_fetch_node: PeerDataFetcher.fetch catches every failure itself
PeerFetchNode ==
    /\ UNCHANGED aside
    /\ pc = "peer_fetch"
    /\ invoked' = Append(invoked, "peer_fetch")
    /\ \E blob \in PeerBlobs : Return("peer_fetch", [peer_data |-> blob])
    /\ UNCHANGED <<entry, runNo, ticker, reports, edgar, cache, download, sa, log,
                   calls, bundle>>

\* peer_analysis_node
PeerAnalysisNode ==
    /\ UNCHANGED aside
    /\ pc = "peer_analyze"
    /\ invoked' = Append(invoked, "peer_analyze")
    /\ IF ~(Reads("peer_analyze") \subseteq DOMAIN state)
       THEN Raise("peer_analyze", "KeyError") /\ state' = state
       ELSE IF PeerAnalysisRaises(state.peer_data)
       THEN Raise("peer_analyze", "PeerError") /\ state' = state
       ELSE Return("peer_analyze", [peer_insights |-> analyze_peers(state.peer_data)])
    /\ UNCHANGED <<entry, runNo, ticker, reports, edgar, cache, download, sa, log,
                   calls, bundle>>

\* decision_node: the bundle is merged and handed to the decider, whose text
\* becomes the decision; a failing decider raises
DecisionNode ==
    /\ UNCHANGED aside
    /\ pc = "decide"
    /\ invoked' = Append(invoked, "decide")
    /\ bundle' = Combined(state)
    /\ \E text \in DecisionTexts, ok \in BOOLEAN :
          IF ok THEN Return("decide", [decision |-> text])
          ELSE Raise("decide", "DecisionError") /\ state' = state
    /\ UNCHANGED <<entry, runNo, ticker, reports, edgar, cache, download, sa, log, calls>>

\* the next run starts: a new process with an empty state, on the same disk
NextRun ==
    /\ UNCHANGED aside
    /\ pc \in Ended
    /\ runNo < MaxRuns
    /\ runNo' = runNo + 1
    /\ entry' \in {"cli", "graph"}
    /\ pc' = IF entry' = "cli" THEN "cli" ELSE EntryPoint
    /\ ticker' \in Tickers
    /\ state' = <<>>
    /\ invoked' = <<>>
    /\ err' = NoErr
    /\ download' = NoDownload
    /\ sa' = NoCall
    /\ log' = <<>>
    /\ bundle' = <<>>
    /\ UNCHANGED <<reports, edgar, cache, calls>>

Next ==
    \/ Main
    \/ FetchNode
    \/ AnalysisNode
    \/ SecFetchNode
    \/ SecAnalyzeNode
    \/ SaExtract
    \/ SaRisk
    \/ SaMdna
    \/ SaWrite
    \/ SaWriteInterrupted
    \/ PeerFetchNode
    \/ PeerAnalysisNode
    \/ DecisionNode
    \/ NextRun

Spec == Init /\ [][Next]_vars

\* a run of the graph built without the peer stage
InitPartial ==
    /\ InitRun
    /\ disabled = PeerStages
    /\ NoFn
    /\ NoProcs

NextPartial ==
    \/ Main
    \/ FetchNode
    \/ AnalysisNode
    \/ SecFetchNode
    \/ SecAnalyzeNode
    \/ SaExtract
    \/ SaRisk
    \/ SaMdna
    \/ SaWrite
    \/ SaWriteInterrupted
    \/ DecisionNode
    \/ NextRun

SpecPartial == InitPartial /\ [][NextPartial]_vars

----------------------------------------------------------------------------
(* The analysers applied on their own *)

\* no pipeline run is in progress
NoRun ==
    /\ entry = "graph"
    /\ pc = "none"
    /\ state = <<>>
    /\ invoked = <<>>
    /\ err = NoErr
    /\ runNo = 1
    /\ ticker = "AAPL"
    /\ reports = <<>>
    /\ edgar = NoFolders
    /\ cache = <<>>
    /\ download = NoDownload
    /\ sa = NoCall
    /\ log = <<>>
    /\ calls = <<>>
    /\ bundle = <<>>
    /\ disabled = {}

\* the variables of a run but the cache directory, and all of them
rest == <<entry, pc, state, invoked, err, runNo, ticker, reports, edgar,
          download, sa, log, calls, bundle, disabled>>
run == <<rest, cache>>

\* the function has been applied; its result
Applied(name) == fn = name /\ res # <<>>
Result == res[1]

\* the function applied returns value
Returns(value) ==
    /\ res = <<>>
    /\ res' = <<value>>
    /\ UNCHANGED <<fn, arg, procs, run>>

\* insider_analysis.analyze is applied to data on day now of the machine's
\* clock, in a run whose as-of date is asof: transactions of every type and
\* title under every MSPR blob, and buys and sells of every date when the run
\* is as of an earlier day than the machine's
InsiderInputs ==
    LET typed == {Txn(type, title, Date("day", 19)) :
                      type \in {"Buy", "SELL", "Gift"}, title \in {"ceo", "Director", ""}}
        blobs == {Sentiment("mspr", Fetched(TRUE, v), <<>>) : v \in {-10, 3, 4, 6, 7}}
                     \cup {Sentiment("mspr", Fetched(FALSE, 0), <<>>),
                           Sentiment("none", Fetched(FALSE, 0), <<>>),
                           Sentiment("data", Fetched(FALSE, 0),
                                     <<Fetched(TRUE, 7), Fetched(TRUE, 3)>>)}
        dated == {Txn(type, "", date) :
                      type \in {"buy", "sell"},
                      date \in {Date("day", 32), Date("day", 33), Date("day", 39),
                                Date("bad", 0), Date("none", 0)}}
    IN  {[data |-> [ticker |-> "AAPL", insider_transactions |-> txns,
                    insider_sentiment |-> blob],
          now |-> 20, asof |-> 20] :
            txns \in SeqsUpTo(typed, MaxTxns), blob \in blobs}
        \cup
        {[data |-> [ticker |-> "AAPL", insider_transactions |-> txns,
                    insider_sentiment |-> Sentiment("none", Fetched(FALSE, 0), <<>>)],
          now |-> now, asof |-> 40] :
            txns \in SeqsUpTo(dated, MaxTxns), now \in {40, 60}}

\* peer_analysis.analyze is applied to one peer with a price history of 1 to
\* MaxPeerRows rows, with and without a news score
PeerInputs ==
    {PeerData(<<"P1">>, [P1 |-> Frame(n, TRUE, 50, 40, 25, 60, 0, 0, 0, 0)], [P1 |-> news]) :
        n \in 1..MaxPeerRows, news \in {NewsScore(3), <<>>}}

\* technical_analysis.analyze is applied to indicator frames whose last row is
\* fully populated, with values on and on both sides of every threshold
TechnicalInputs ==
    {[rows |-> rows, hasPrice |-> TRUE, price |-> 100, SMA_20 |-> sma, RSI_14 |-> rsi,
      MACD_12_26_9 |-> macd, MACD_signal |-> sig, BBL_20 |-> band[1], BBH_20 |-> band[2]] :
        rows \in {MACDSlow + MACDSignalWindow - 1, 60}, sma \in {95, 105},
        rsi \in {29, 30, 31, 69, 70, 71}, macd \in {2, 5}, sig \in {2, 5},
        band \in {b \in {80, 90, 100, 110} \X {90, 100, 110, 120} : b[1] <= b[2]}}

\* sentiment_analysis.analyze is applied to the non-empty feeds of at most
\* MaxFeed items with a parseable, an unparseable or no score
SentimentInputs ==
    SeqsUpTo({Item("num", -3, "t"), Item("num", 1, "t"), Item("num", 4, "t"),
              Item("bad", 0, "t"), Item("none", 0, "t")}, MaxFeed) \ {<<>>}

\* _parse_sections is applied to the texts of at most MaxTokens tokens over
\* the 10-K headings and a word, as a 10-K and as a 10-Q
SectionsInputs ==
    {[text |-> text, form |-> form] :
        text \in SeqsUpTo({"i1a_rf", "i1b", "i7_mda", "i7a", "i8", "w1"}, MaxTokens),
        form \in {"10-K", "10-Q"}}

\* _analyze_section is applied to an empty and a non-empty section, with
\* every reply of the summarization call and of the classification call: a
\* JSON mapping with a sentiment of the three or another value and a score in
\* or out of [-1, 1] (or one float() rejects), a text that is no JSON, a failure
SectionInputs ==
    {[section |-> section, sumReply |-> sumReply, clsReply |-> clsReply] :
        section \in {<<>>, <<"w1">>},
        sumReply \in SumReplies \cup {[ok |-> TRUE, text |-> <<"NEGATIVE", "trend">>],
                                      [ok |-> TRUE, text |-> <<"steady">>]},
        clsReply \in
            {[kind |-> "json", scoreOk |-> ok, sentiment |-> sentiment, score |-> score] :
                ok \in BOOLEAN,
                sentiment \in {"Positive", "Neutral", "Negative", "Bullish", "negative"},
                score \in {-25, -10, 0, 5, 10, 25}}
            \cup {[kind |-> kind, scoreOk |-> FALSE, sentiment |-> "Neutral", score |-> 0] :
                      kind \in {"text", "fail"}}}

Inputs(name) ==
    CASE name = "insider" -> InsiderInputs
      [] name = "sections" -> SectionsInputs
      [] name = "section" -> SectionInputs
      [] name = "peers" -> PeerInputs
      [] name = "technical" -> TechnicalInputs
      [] name = "sentiment" -> SentimentInputs

Functions == {"insider", "peers", "technical", "sentiment", "sections", "section"}

InitFn ==
    /\ NoRun
    /\ NoProcs
    /\ fn \in Functions
    /\ arg \in Inputs(fn)
    /\ res = <<>>

ApplyInsider ==
    /\ fn = "insider"
    /\ Returns(analyze_insider(arg.data, arg.now))


ApplyPeers ==
    /\ fn = "peers"
    /\ Returns(analyze_peers(arg))

ApplyTechnical ==
    /\ fn = "technical"
    /\ Returns(Classify(arg))

ApplySentiment ==
    /\ fn = "sentiment"
    /\ Returns(analyze_sentiment(arg))

ApplySections ==
    /\ fn = "sections"
    /\ Returns(parse_sections(arg.text, arg.form))

ApplySection ==
    /\ fn = "section"
    /\ Returns(analyze_section(arg.section, arg.sumReply, arg.clsReply))

NextFn ==
    \/ ApplySections
    \/ ApplySection
    \/ ApplyInsider
    \/ ApplyPeers
    \/ ApplyTechnical
    \/ ApplySentiment

SpecFn == InitFn /\ [][NextFn]_vars

----------------------------------------------------------------------------
(* Two concurrent runs in SECRiskAnalyzer.analyze on the same filing *)

Procs == {1, 2}

\* the locals of a call: its position, the results it computed, what it returned
Local(at, results, out) == [pc |-> at, results |-> results, out |-> out]

\* the filing both runs analyse: its metadata and the text of its PDF
InitConc ==
    /\ NoRun
    /\ fn = "none"
    /\ arg \in {[meta |-> Meta("AAPL", "10-K", 1), text |-> text] : text \in Docs}
    /\ res = <<>>
    /\ procs = [p \in Procs |-> Local("lookup", <<>>, <<>>)]

\* p moves to position at, with its other locals as given; the rest stays
Step(p, at, results, out) ==
    /\ procs' = [procs EXCEPT ![p] = Local(at, results, out)]
    /\ UNCHANGED <<fn, arg, res, rest>>

\* json_file.exists()
Lookup(p) ==
    /\ procs[p].pc = "lookup"
    /\ Step(p, IF CacheHit(arg.meta) THEN "read" ELSE "compute", <<>>, <<>>)
    /\ cache' = cache

\* json.loads(json_file.read_text()): raises on a file that holds no complete
\* document
ReadCache(p) ==
    /\ procs[p].pc = "read"
    /\ LET content == cache[JsonFile(arg.meta)]
       IN  IF JsonLoadsRaises(content)
           THEN Step(p, "failed", <<>>, <<>>)
           ELSE Step(p, "done", <<>>, JsonLoads(content))
    /\ cache' = cache

\* the text is extracted and parsed, both sections are analysed, the results
\* are built
Compute(p) ==
    /\ procs[p].pc = "compute"
    /\ LET sections == parse_sections(arg.text, arg.meta.form)
       IN  \E sum \in SumReplies \X SumReplies, cls \in ClsReplies \X ClsReplies :
              Step(p, "open",
                   Results(arg.meta,
                           analyze_section(sections.risk, sum[1], cls[1]),
                           analyze_section(sections.mdna, sum[2], cls[2])),
                   <<>>)
    /\ cache' = cache

\* write_text opens the file for writing: it exists from now on, and is empty
OpenCache(p) ==
    /\ procs[p].pc = "open"
    /\ cache' = (JsonFile(arg.meta) :> <<>>) @@ cache
    /\ Step(p, "write", procs[p].results, <<>>)

\* write_text writes the document and closes the file; the results are returned
WriteCache(p) ==
    /\ procs[p].pc = "write"
    /\ cache' = (JsonFile(arg.meta) :> JsonDumps(procs[p].results)) @@ cache
    /\ Step(p, "done", procs[p].results, procs[p].results)

NextConc ==
    \E p \in Procs :
        \/ Lookup(p)
        \/ ReadCache(p)
        \/ Compute(p)
        \/ OpenCache(p)
        \/ WriteCache(p)

SpecConc == InitConc /\ [][NextConc]_vars

----------------------------------------------------------------------------
(* Properties *)

Has(steps, x) == \E j \in 1..Len(steps) : steps[j] = x

\* the order of the stages the orchestrator is specified to follow
StageOrder ==
    <<"fetch", "analyze", "sec_fetch", "sec_analyze", "peer_fetch", "peer_analyze", "decide">>

\* the steps of a cache miss inside SECRiskAnalyzer.analyze
SaSteps == {"sa_extract", "sa_risk", "sa_mdna", "sa_write"}

\* the work a cache hit must not do
Work == {"extract", "parse", "summarize", "classify", "write"}

\* C1: the stages are invoked one at a time in the order fetch, analyze,
\* sec_fetch, sec_analyze, peer_fetch, peer_analyze, decide, each at most once,
\* and a stage about to be invoked finds every key it reads in the state (no
\* stage ever fails on a missing key).
C1_StagesInOrderWithInputs ==
    /\ Len(invoked) <= Len(StageOrder)
    /\ \A i \in 1..Len(invoked) : invoked[i] = StageOrder[i]
    /\ pc \in Stages => /\ pc = StageOrder[Len(invoked) + 1]
                        /\ Reads(pc) \subseteq DOMAIN state
    /\ err.kind # "KeyError"

C1_Witness == pc = "END" /\ invoked = StageOrder

\* C2: a run started from the command line in which no stage raised ends
\* after decide with a decision key holding one of the decider's texts.
C2_CliRunDecides ==
    (entry = "cli" /\ pc \in Ended /\ err.stage \notin Stages)
        => (pc = "END" /\ "decision" \in DOMAIN state /\ state.decision \in DecisionTexts)

\* C3: the cache lookup is the first step of every analyze call; a call that
\* finds a complete entry returns it without extraction, parsing,
\* summarization or classification; and none of that work is ever under way
\* while the cache holds an entry for the filing.
C3_CacheHitShortCircuits ==
    /\ \A i \in 1..Len(calls) :
          /\ calls[i].steps[1] = "lookup"
          /\ \A j \in 2..Len(calls[i].steps) : calls[i].steps[j] # "lookup"
          /\ calls[i].outcome = "hit" =>
                /\ \A j \in 1..Len(calls[i].steps) : calls[i].steps[j] \notin Work
                /\ calls[i].result = JsonLoads(cache[calls[i].key])
    /\ log # <<>> => log[1] = "lookup"
    /\ pc \in SaSteps => JsonFile(state.sec_meta) \notin DOMAIN cache
    /\ (pc = "peer_fetch" /\ calls # <<>> /\ calls[Len(calls)].outcome = "hit")
          => /\ state.sec_analysis = JsonLoads(cache[JsonFile(state.sec_meta)])
             /\ \A j \in 1..Len(log) : log[j] \notin Work

C3_Witness ==
    /\ pc = "peer_fetch"
    /\ calls # <<>>
    /\ calls[Len(calls)].outcome = "hit"
    /\ state.sec_analysis.risk_summary # <<>>

\* C4: of two analyze calls in sequence for the same (ticker, form, filing
\* date), the first of which returned, the second extracts and summarizes
\* nothing and returns a result equal to the first one's.
C4_SecondCallFromCache ==
    \A i \in 1..(Len(calls) - 1) :
        (calls[i].key = calls[i + 1].key /\ calls[i].outcome \in {"hit", "computed"})
            => /\ calls[i + 1].outcome = "hit"
               /\ \A j \in 1..Len(calls[i + 1].steps) : calls[i + 1].steps[j] \notin Work
               /\ calls[i + 1].result = calls[i].result

C4_Witness ==
    /\ Len(calls) >= 2
    /\ calls[1].key = calls[2].key
    /\ calls[1].outcome = "computed"
    /\ Has(calls[1].steps, "extract") /\ Has(calls[1].steps, "summarize")
    /\ calls[1].result.risk_summary # <<>>
    /\ calls[2].outcome = "hit"

\* C5: a cache file that exists but cannot be parsed is treated as a miss:
\* no analyze call fails after reading the cache file.
C5_UnreadableCacheIsMiss ==
    \A i \in 1..Len(calls) : Has(calls[i].steps, "read_cache") => calls[i].outcome # "raised"

\* C6: once peer_analyze was invoked, the stage has not failed and its table
\* has exactly one row per requested peer.
C6_OneRowPerPeer ==
    Has(invoked, "peer_analyze")
        => /\ err.stage # "peer_analyze"
           /\ "peer_insights" \in DOMAIN state
           /\ DOMAIN state.peer_insights.peer_table
                 = {state.peer_data.peers[i] : i \in 1..Len(state.peer_data.peers)}

\* C7: with an empty news feed the analyze stage fails: no sentiment signal
\* is produced, decide is never invoked and there is no decision.
C7_EmptyFeedAborts ==
    (Has(invoked, "analyze") /\ state.news = <<>>)
        => /\ pc = "error" /\ err.stage = "analyze"
           /\ "sentiment" \notin DOMAIN state
           /\ ~Has(invoked, "decide")
           /\ "decision" \notin DOMAIN state
           /\ bundle = <<>>

C7_Witness ==
    /\ Has(invoked, "analyze") /\ state.news = <<>>
    /\ err = [stage |-> "analyze", kind |-> "ValueError: Empty news feed"]

\* both downloads of this run failed and no filing folder is on disk
DownloadFailedNoFiling == download.k = "fail" /\ download.q = "fail" /\ ~(edgar.k # 0 \/ edgar.q # 0)

C9_SummariesReachDecider ==
    (pc = "END" /\ Has(invoked, "decide") /\ "sec_analysis" \in DOMAIN state
        /\ state.sec_analysis.risk_summary # <<>> /\ state.sec_analysis.mdna_summary # <<>>)
        => /\ bundle.risk_summary = state.sec_analysis.risk_summary
           /\ bundle.mdna_summary = state.sec_analysis.mdna_summary

\* C10: when the last row of the indicator frame holds an undefined value,
\* the analyze stage fails and no technical signal is returned.
C10_UndefinedRowRejected ==
    (Has(invoked, "analyze") /\ ~ComputeRaises(state.data)
        /\ LastRowUndefined(compute_indicators(state.data)))
        => (pc = "error" /\ "signals" \notin DOMAIN state)

----------------------------------------------------------------------------
(* The partial pipeline *)

----------------------------------------------------------------------------
(* The insider analysis *)

\* the indices of the transactions whose type is one of the given spellings
Typed(txns, spellings) == {i \in 1..Len(txns) : txns[i].type \in spellings}

\* C12: the insider score is 85 for net Buy with MSPR above 0.6 and an
\* executive involved, 75 for net Buy with MSPR above 0.6 and none, 65 for net
\* Buy with MSPR above 0.3 and at most 0.6, 25 for net Sell with MSPR at most
\* 0.3, and 50 otherwise; net activity is Buy iff there are more buys than
\* sells, Sell iff more sells than buys, and Neutral otherwise.
C12_InsiderScoreLookup ==
    Applied("insider") =>
        LET f == Result.raw_features
            buys == Cardinality(Typed(arg.data.insider_transactions, {"buy", "Buy", "BUY"}))
            sells == Cardinality(Typed(arg.data.insider_transactions, {"sell", "Sell", "SELL"}))
            exec == f.top_execs_involved # {}
            score == Result.insider_sentiment_score
        IN  /\ f.net_activity = "Buy" <=> buys > sells
            /\ f.net_activity = "Sell" <=> sells > buys
            /\ f.net_activity = "Neutral" <=> buys = sells
            /\ score = 85 <=> (f.net_activity = "Buy" /\ f.mspr > 6 /\ exec)
            /\ score = 75 <=> (f.net_activity = "Buy" /\ f.mspr > 6 /\ ~exec)
            /\ score = 65 <=> (f.net_activity = "Buy" /\ f.mspr > 3 /\ f.mspr <= 6)
            /\ score = 25 <=> (f.net_activity = "Sell" /\ f.mspr <= 3)
            /\ score \in {85, 75, 65, 25, 50}

C12_Witness ==
    /\ Applied("insider")
    /\ Result.insider_sentiment_score = 85
    /\ Result.raw_features.mspr = 7
    /\ Result.raw_features.total_sells = 1

\* a buy counts for the flag as the claim has it: its date does not parse, or
\* lies in the seven days up to the as-of date of the run
CountsAsOf(t, asof) ==
    /\ LowerType(t.type) = "buy"
    /\ \/ t.date.kind = "bad"
       \/ t.date.kind = "day" /\ asof - t.date.day \in 0..ClusterDays

\* C13: the recent-cluster flag is true exactly when at least two buys are
\* dated within the trailing 7 days of the as-of date of the run, a buy whose
\* date no format parses counting as dated at that time; sells and older buys
\* never count.
C13_ClusterAsOfRunDate ==
    Applied("insider") =>
        LET txns == arg.data.insider_transactions
        IN  Result.raw_features.recent_cluster
                <=> Cardinality({i \in 1..Len(txns) : CountsAsOf(txns[i], arg.asof)}) >= 2

----------------------------------------------------------------------------
(* The peer, technical and sentiment analyses *)

\* C14: for a peer with a non-empty history of n rows, change_1d is none iff
\* n < 2, change_7d is none iff n < 8, and rsi is none whenever n is below the
\* RSI warm-up window; with 5 rows change_7d is none and change_1d is a number.
C14_PeerFieldsNoneUntilHistory ==
    Applied("peers") =>
        LET n == arg.price_data["P1"].rows
            row == Result.peer_table["P1"]
        IN  /\ row.change_1d.isNone <=> n < 2
            /\ row.change_7d.isNone <=> n < 8
            /\ n < RSIWindow => row.rsi.isNone
            /\ n = 5 => row.change_7d.isNone /\ ~row.change_1d.isNone

\* C15: for a fully populated last row the rsi signal is overbought iff the
\* RSI is above 70, oversold iff below 30 and neutral otherwise; the macd
\* signal is bullish iff the MACD line is above its signal and bearish
\* otherwise (ties are bearish); the bb signal is breakout iff the price is
\* above the upper band, breakdown iff below the lower band and neutral
\* otherwise; nothing but the last row decides.
C15_SignalsFromLastRow ==
    Applied("technical") =>
        /\ Result.rsi = "overbought" <=> arg.RSI_14 > 70
        /\ Result.rsi = "oversold" <=> arg.RSI_14 < 30
        /\ Result.rsi = "neutral" <=> arg.RSI_14 \in 30..70
        /\ Result.macd = "bullish" <=> arg.MACD_12_26_9 > arg.MACD_signal
        /\ Result.macd = "bearish" <=> arg.MACD_12_26_9 <= arg.MACD_signal
        /\ Result.bb = "breakout" <=> arg.price > arg.BBH_20
        /\ Result.bb = "breakdown" <=> arg.price < arg.BBL_20
        /\ Result.bb = "neutral" <=> arg.price \in arg.BBL_20..arg.BBH_20

C15_Witness ==
    /\ Applied("technical")
    /\ arg.MACD_12_26_9 = arg.MACD_signal /\ Result.macd = "bearish"
    /\ arg.RSI_14 = 70 /\ Result.rsi = "neutral"
    /\ arg.price = arg.BBH_20 /\ Result.bb = "neutral"

\* the positions of the feed whose item carries a score that parses
Scored(feed) == {i \in 1..Len(feed) : feed[i].kind = "num"}
FirstOf(S) == CHOOSE i \in S : \A j \in S : i <= j
LastOf(S) == CHOOSE i \in S : \A j \in S : j <= i

\* C16: on a non-empty feed, items whose score is missing or does not parse
\* are skipped; with at least two scored items the trend is up iff the last
\* scored value is above the first, down iff below, flat otherwise; with fewer
\* than two scored items it is flat.
C16_TrendOverScoredItems ==
    Applied("sentiment") =>
        LET S == Scored(arg)
        IN  IF Cardinality(S) >= 2
            THEN /\ Result.trend = "up" <=> arg[LastOf(S)].score > arg[FirstOf(S)].score
                 /\ Result.trend = "down" <=> arg[LastOf(S)].score < arg[FirstOf(S)].score
                 /\ Result.trend = "flat" <=> arg[LastOf(S)].score = arg[FirstOf(S)].score
            ELSE Result.trend = "flat"

C16_Witness ==
    /\ Applied("sentiment")
    /\ Len(arg) = 3
    /\ arg[1].kind = "num" /\ arg[2].kind = "num" /\ arg[3].kind = "bad"
    /\ Result.trend = "down"

----------------------------------------------------------------------------
(* The sections of a filing *)

\* C17: in a 10-K the risk section is the text between the first
\* "Item 1A ... Risk Factors" heading and the first following "Item 1B"
\* heading; when no Item 1B follows, it ends at the first following "Item 7A"
\* or "Item 8" heading; without the start heading the section is empty.
C17_RiskSectionBounded ==
    (Applied("sections") /\ arg.form = "10-K") =>
        LET text == arg.text
            start == Search(text, {"i1a_rf"}, 0)
            item1b == Search(text, {"i1b"}, start)
            fallback == Search(text, {"i7a", "i8"}, start)
            end == IF item1b # 0 THEN item1b ELSE fallback
        IN  Result.risk = IF start = 0 THEN <<>>
                          ELSE IF end # 0 THEN SubSeq(text, start + 1, end - 1)
                          ELSE SubSeq(text, start + 1, Len(text))

\* C18: whatever the classification call returns, the sentiment of a section
\* analysis is one of Positive, Neutral, Negative and its score lies in
\* [-1, 1]; when the reply is not parseable the sentiment is Positive if the
\* summary contains "positive" (in any case), else Negative if it contains
\* "negative", else Neutral.
C18_SectionSentimentInRange ==
    Applied("section") =>
        /\ Result.sentiment \in {"Positive", "Neutral", "Negative"}
        /\ Result.score \in -10..10
        /\ (arg.section # <<>> /\ arg.clsReply.kind # "json") =>
               Result.sentiment =
                   IF ContainsLower(Result.summary, "positive") THEN "Positive"
                   ELSE IF ContainsLower(Result.summary, "negative") THEN "Negative"
                   ELSE "Neutral"

----------------------------------------------------------------------------
(* Concurrent runs on one cache entry *)

\* C19: when two runs analyse the same filing concurrently, in every
\* interleaving no run fails and every run that returns, returns a complete
\* result (its own or the cached one), never a partially written entry.
C19_ConcurrentRunsComplete ==
    \A p \in DOMAIN procs :
        /\ procs[p].pc # "failed"
        /\ procs[p].pc = "done" =>
               DOMAIN procs[p].out = {ResultKeys[i] : i \in 1..Len(ResultKeys)}

----------------------------------------------------------------------------
(* A stage that raises *)

\* a stage of this run has raised
StageRaised == err.stage \in Stages

\* C20 as stated: once a stage of a run has raised, the run is over, no later
\* stage has been invoked, the decider has not been called at all, and the
\* state holds no decision key.
C20_RaiseNeverCallsDecider ==
    StageRaised =>
        /\ pc = "error"
        /\ invoked # <<>> /\ invoked[Len(invoked)] = err.stage
        /\ bundle = <<>>
        /\ "decision" \notin DOMAIN state

\* C20, amended: once a stage of a run has raised, the run is over, no later
\* stage has been invoked and the state holds no decision key; the decider has
\* not been called, unless the stage that raised is decide itself, where the
\* failing call of the decider is what raised.
C20_RaiseAbortsRun ==
    StageRaised =>
        /\ pc = "error"
        /\ invoked # <<>> /\ invoked[Len(invoked)] = err.stage
        /\ \A i \in 1..Len(invoked) : invoked[i] = StageOrder[i]
        /\ bundle = <<>> <=> err.stage # "decide"
        /\ "decision" \notin DOMAIN state

C20_Witness ==
    /\ pc = "error"
    /\ err.stage = "peer_analyze"
    /\ invoked = SubSeq(StageOrder, 1, 6)
    /\ bundle = <<>>
    /\ "decision" \notin DOMAIN state

----------------------------------------------------------------------------
(* What the cache is written from *)

\* the sections of the filing with the given key, as _parse_sections cuts the
\* text of its PDF (the PDF of a key is written once and never replaced)
SectionsOf(key) == parse_sections(reports[key].text, key[2])

\* the results hold an empty summary for a section of the filing that is not
\* empty: its summarization failed in the analysis they come from
SummaryFailed(key, results) ==
    \/ SectionsOf(key).risk # <<>> /\ results.risk_summary = <<>>
    \/ SectionsOf(key).mdna # <<>> /\ results.mdna_summary = <<>>

\* C21: a complete cache entry comes from an analysis in which the
\* summarization succeeded for every non-empty section; and after a call that
\* computed results with a failed summarization, no later call for the same
\* filing returns those results from the cache.
C21_CacheOnlyFromSummarized ==
    /\ \A key \in DOMAIN cache :
          (key \in DOMAIN reports /\ ~JsonLoadsRaises(cache[key]))
              => ~SummaryFailed(key, JsonLoads(cache[key]))
    /\ \A i \in 1..Len(calls) : \A j \in (i + 1)..Len(calls) :
          (/\ calls[i].key = calls[j].key
           /\ calls[i].outcome = "computed"
           /\ SummaryFailed(calls[i].key, calls[i].result))
              => ~(calls[j].outcome = "hit" /\ calls[j].result = calls[i].result)

====
